---- MODULE Spec2Model ----
(***************************************************************************)
(* Model of src/SyringeDrainage.py: class Foam (drainage kinetics, column  *)
(* length, area filter, adaptive angle solver, driver) and class Syringe.  *)
(*                                                                         *)
(* The program computes with binary floating point; the model computes     *)
(* with integers in fixed units:                                           *)
(*   time            ms            lengths, heights, diameters   um        *)
(*   liquid volumes  1e-5 mL       areas                         0.01 mm2  *)
(*   flow rates      mL/min (the integer the user types; the code stores   *)
(*                   it divided by 60)                                     *)
(*   angles          the pair (num, den) standing for 2*pi*num/den, which  *)
(*                   is exactly the point num of np.linspace(0, 2*pi,      *)
(*                   den+1)                                                *)
(* math.sin/math.cos are a piecewise-linear sine through 32 knots per turn.*)
(* The angle table of resolution N has N \div TableScale points.           *)
(***************************************************************************)
EXTENDS Integers, Sequences, FiniteSets, TLC

VARIABLES
  V, D,                  \* Syringe.V (mL), Syringe.D (um)
  FHT, LG,               \* Foam.FHT (s), Foam.LG
  VF, VL,                \* Foam.VF (mL), Foam.VL (1e-5 mL)
  Q,                     \* Syringe.Q (mL/min)
  AccuracyDP, Tfrequency,
  L,                     \* Foam.L (um)
  T, tdata,              \* Foam.T (ms), Foam.tdata, keyed by <<flow, vol>>
  H, tempTs,             \* Foam.H, tempTs of simulateInjection
  pc, err,               \* position of the driver; the exception that ended it
  i, j,                  \* loop indices of simulateInjection (1-based)
  iterations, thetas, areas,   \* locals of getLiquidHeight
  area, kept,            \* result of getLiquidArea; grid indices it kept
  builds, tableN, matched,     \* tables built in this call; resolution of the
                               \* last one; whether it matched every area
  log,                   \* one record per returned getLiquidHeight call
  kGrid, kC0, kVolumes, kpc    \* getLiquidVolume applied on its own

vars == <<V, D, FHT, LG, VF, VL, Q, AccuracyDP, Tfrequency, L, T, tdata, H,
          tempTs, pc, err, i, j, iterations, thetas, areas, area, kept,
          builds, tableN, matched, log, kGrid, kC0, kVolumes, kpc>>

----------------------------------------------------------------------------
(* Bounds of the model *)

TableScale == 2500     \* code table points per model table point
MaxList == 2           \* longest list of flow rates / foam volumes drawn
MaxKSteps == 4         \* longest grid drawn for getLiquidVolume on its own

SyringeChoices == {3, 10}
FlowChoices == {6, 96}
VolChoices == {1, 3}
LGChoices == {3}
DPChoices == {0, 1}
FreqChoices == {1, 2}

(* Program constants *)

IterStart == 10000
IterStep == 5000
IterCap == 500000
TwoPiE4 == 62832       \* 2*math.pi in 1e-4 rad

syringeDiameters == [v \in {3, 5, 10, 20} |->
  CASE v = 20 -> 20100 [] v = 10 -> 15960 [] v = 5 -> 12460 [] v = 3 -> 9830]

----------------------------------------------------------------------------
(* Arithmetic helpers *)

RECURSIVE Pow10(_)
Pow10(n) == IF n = 0 THEN 1 ELSE 10 * Pow10(n - 1)

Range(s) == {s[k] : k \in 1..Len(s)}

\* the list with every element computed (a list comprehension's result)
List(f) == f \o <<>>

\* round(x, dp) of Python: to the nearest multiple of 10^-dp, ties to even
pyRound(x, dp) ==
  LET u == Pow10(2 - dp)            \* areas carry two decimal digits
      q == x \div u
      r == x % u
  IN  IF 2 * r < u THEN q * u
      ELSE IF 2 * r > u THEN (q + 1) * u
      ELSE IF q % 2 = 0 THEN q * u ELSE (q + 1) * u

\* sine at the knots k*2*pi/32, in 1e-4
SinQ == <<0, 1951, 3827, 5556, 7071, 8315, 9239, 9808, 10000>>

sinKnot(k) ==
  IF k <= 8 THEN SinQ[k + 1]
  ELSE IF k <= 16 THEN SinQ[17 - k]
  ELSE IF k <= 24 THEN -SinQ[k - 15]
  ELSE -SinQ[33 - k]

\* math.sin(2*pi*num/den) in 1e-4, 0 <= num <= den
mathSin(num, den) ==
  LET p == 32 * num
      k == p \div den
      f == p % den
  IN  IF f = 0 THEN sinKnot(k)
      ELSE sinKnot(k) + ((sinKnot(k + 1) - sinKnot(k)) * f) \div den

\* math.cos(theta/2) for theta = 2*pi*num/den, in 1e-4
mathCosHalf(num, den) == mathSin(den + 2 * num, 4 * den)

\* np.linspace(0, stop, num); num >= 1
linspace(stop, num) ==
  List([k \in 1..num |-> IF num = 1 THEN 0 ELSE ((k - 1) * stop) \div (num - 1)])

----------------------------------------------------------------------------
(* Syringe *)

\* math.pi*(D/2)**2 in 0.01 mm2 (pi = 355/113)
getSyringeCrossArea == (355 * (D \div 10) * (D \div 10)) \div (113 * 4 * 100)

----------------------------------------------------------------------------
(* Foam: time grid *)

\* vol/flow in ms, and int(vol/flow) in s (flow in mL/min)
duration(flow, vol) == (vol * 60000) \div flow
intSeconds(Tms) == Tms \div 1000

\* (int(T)*self.Tfrequency)+1
gridPoints(Tms) == (intSeconds(Tms) * Tfrequency) + 1

\* the dictionaries self.T and self.tdata built by setTimeParams
setTimeParamsT(flows, vols) ==
  [p \in Range(flows) \X Range(vols) |-> duration(p[1], p[2])]
setTimeParamsTdata(flows, vols) ==
  [p \in Range(flows) \X Range(vols) |->
     linspace(duration(p[1], p[2]), (intSeconds(duration(p[1], p[2])) * Tfrequency) + 1)]

----------------------------------------------------------------------------
(* Foam: drainage kinetics and column length *)

\* the step with the factor 2 of the half-time left out
drainStepNoTwo(dt, foamLiquidContent) == (dt * foamLiquidContent) \div (FHT * 1000)

\* dv = dt*foamLiquidContent/(2*self.FHT)      (dt in ms, FHT in s)
drainStep(dt, foamLiquidContent) == (dt * foamLiquidContent) \div (2 * FHT * 1000)

RECURSIVE volumeLoop(_, _, _, _, _)
volumeLoop(n, dt, foamLiquidContent, drainedLiquidVol, volumes) ==
  IF n = 0 THEN volumes
  ELSE LET dv == drainStep(dt, foamLiquidContent)
       IN  volumeLoop(n - 1, dt, foamLiquidContent - dv, drainedLiquidVol + dv,
                      Append(volumes, drainedLiquidVol + dv))

\* getLiquidVolume; the caller has checked Len(td) >= 2 (td[1] of Python)
getLiquidVolume(td, foamLiquidContent) ==
  volumeLoop(Len(td), td[2] - td[1], foamLiquidContent, 0, <<>>)

\* dl = dt*(-Q*1000)/area in um: dt ms, flow mL/min, area 0.01 mm2
lengthStep(dt, flow) == -(((dt * flow) * 5000) \div (3 * getSyringeCrossArea))

RECURSIVE lengthLoop(_, _, _, _)
lengthLoop(n, dl, length, lengths) ==
  IF n = 0 THEN lengths
  ELSE lengthLoop(n - 1, dl, length + dl, Append(lengths, length + dl))

getLiquidLength(td, flow) ==
  lengthLoop(Len(td), lengthStep(td[2] - td[1], flow), L, <<>>)

----------------------------------------------------------------------------
(* Foam: getLiquidArea.  x = volume*1000 is in 1e-5 mm3, y = length in um,  *)
(* x/y in 0.01 mm2.  The operands are numpy float64, so x/0 is inf (x > 0), *)
(* nan (x = 0) or -inf (x < 0) and raises nothing.                          *)

\* x/y < a
quotientBelow(x, y, a) ==
  IF y = 0 THEN x < 0
  ELSE IF y > 0 THEN x < a * y ELSE x > a * y

\* the filter without its lower bound
quotientAny(x, y) == TRUE

\* x/y > 0
quotientPositive(x, y) ==
  IF y = 0 THEN x > 0
  ELSE (x > 0 /\ y > 0) \/ (x < 0 /\ y < 0)

\* the grid indices whose sample passes the filter of the comprehension
keptSamples(volumes, lengths) ==
  LET n == IF Len(volumes) < Len(lengths) THEN Len(volumes) ELSE Len(lengths)
      Keep(k) == /\ quotientBelow(volumes[k] * 1000, lengths[k], getSyringeCrossArea)
                 /\ quotientPositive(volumes[k] * 1000, lengths[k])
  IN  SelectSeq([k \in 1..n |-> k], Keep)

\* x/y of the kept samples, in grid order
keptQuotients(volumes, lengths, idx) ==
  [idx |-> idx,
   values |-> List([k \in 1..Len(idx) |->
                      (volumes[idx[k]] * 1000) \div lengths[idx[k]]])]

filterSamples(volumes, lengths) ==
  keptQuotients(volumes, lengths, keptSamples(volumes, lengths))

\* the comprehension of getLiquidArea: the kept indices and their x/y
areaSamples(td, flow, foamLiquidContent) ==
  filterSamples(getLiquidVolume(td, foamLiquidContent), getLiquidLength(td, flow))

getLiquidArea(td, flow, foamLiquidContent) ==
  areaSamples(td, flow, foamLiquidContent).values

----------------------------------------------------------------------------
(* Foam: the angle table, the match and the heights *)

\* number of points of the model's table for resolution `n` of the code
tablePoints(n) == n \div TableScale

\* np.linspace(0, 2*math.pi, iterations)
simulatedThetasOf(n) ==
  List([k \in 1..tablePoints(n) |-> [num |-> k - 1, den |-> tablePoints(n) - 1]])

\* ((radius ** 2) / 2) * (theta - math.sin(theta)) in 0.01 mm2; radius in um
modelArea(theta, radius) ==
  LET thetaE4 == (TwoPiE4 * theta.num) \div theta.den
      halfR2 == (radius * radius) \div 20000
  IN  (halfR2 * (thetaE4 - mathSin(theta.num, theta.den))) \div 10000

simulatedAreasOf(n) ==
  LET st == simulatedThetasOf(n)
  IN  List([k \in 1..Len(st) |-> pyRound(modelArea(st[k], D \div 2), AccuracyDP)])

\* the last position holding v instead of the first
listIndexLast(s, v) == CHOOSE k \in 1..Len(s) : s[k] = v /\ \A m \in (k + 1)..Len(s) : s[m] # v

\* list.index: the first position holding v
listIndex(s, v) == CHOOSE k \in 1..Len(s) : s[k] = v /\ \A m \in 1..(k - 1) : s[m] # v

\* the for/else over the rounded areas: stops at the first one the table lacks
RECURSIVE matchLoop(_, _, _, _, _)
matchLoop(as, k, st, sa, found) ==
  IF k > Len(as) THEN [ok |-> TRUE, thetas |-> found]
  ELSE IF \A m \in 1..Len(sa) : sa[m] # as[k] THEN [ok |-> FALSE, thetas |-> found]
  ELSE matchLoop(as, k + 1, st, sa, Append(found, st[listIndex(sa, as[k])]))

matchResult(samples, rounded, m) ==
  [raw |-> samples.values, idx |-> samples.idx, rounded |-> rounded,
   ok |-> m.ok, thetas |-> m.thetas]

matchRounded(samples, rounded, st, sa) ==
  matchResult(samples, rounded, matchLoop(rounded, 1, st, sa, <<>>))

\* (syringeDiameter/2)*(1-math.cos(angle/2)) in um
calculateHeight(syringeDiameter, angle) ==
  (syringeDiameter * (10000 - mathCosHalf(angle.num, angle.den))) \div 20000

\* the heights left as computed
clampNone(x) == x

\* self.syrObj.D/2 if x > self.syrObj.D/2 else x
clampHeight(x) == IF x > D \div 2 THEN D \div 2 ELSE x

\* grid[-n:], the last n entries (n >= 1)
truncateTail(grid, n) ==
  SubSeq(grid, IF n < Len(grid) THEN Len(grid) - n + 1 ELSE 1, IF n = 0 THEN 0 ELSE Len(grid))

\* grid[0:n]
truncate(grid, n) == SubSeq(grid, 1, IF n < Len(grid) THEN n ELSE Len(grid))

\* a step that does not divide the distance to the cap
nextIterationsWide(n) == n + 3 * IterStep

\* iterations += 5000
nextIterations(n) == n + IterStep

----------------------------------------------------------------------------
(* State after Foam.__init__ *)

\* np.sort of a validated list: 1..MaxList values, ascending, repeats allowed
sortedLists(S) ==
  {s \in UNION {[1..n -> S] : n \in 1..MaxList} :
     \A k \in 1..(Len(s) - 1) : s[k] <= s[k + 1]}

NoKinetics == kGrid = <<>> /\ kC0 = 0 /\ kVolumes = <<>> /\ kpc = "unused"

Init ==
  /\ V \in SyringeChoices
  /\ D = syringeDiameters[V]
  /\ FHT \in {90, 160}
  /\ LG \in LGChoices
  /\ VF \in {s \in sortedLists(VolChoices) : \A k \in 1..Len(s) : s[k] <= V}
  /\ Q \in sortedLists(FlowChoices)
  /\ AccuracyDP \in DPChoices
  /\ Tfrequency \in FreqChoices
  /\ VL = [k \in 1..Len(VF) |-> (VF[k] * 100000) \div (1 + LG)]
  /\ L = (V * 100000000) \div getSyringeCrossArea
  /\ T = setTimeParamsT(Q, VF)
  /\ tdata = setTimeParamsTdata(Q, VF)
  /\ H = <<>> /\ tempTs = <<>>
  /\ pc = "call" /\ err = "none"
  /\ i = 1 /\ j = 1
  /\ iterations = 0 /\ thetas = <<>> /\ areas = <<>>
  /\ area = <<>> /\ kept = <<>>
  /\ builds = 0 /\ tableN = 0 /\ matched = FALSE
  /\ log = <<>>
  /\ NoKinetics

inputs == <<V, D, FHT, LG, VF, VL, Q, AccuracyDP, Tfrequency, L, T, tdata>>
kinetics == <<kGrid, kC0, kVolumes, kpc>>

----------------------------------------------------------------------------
(* simulateInjection and getLiquidHeight *)

flowNow == Q[i]
volNow == VF[j]
tdataNow == tdata[<<flowNow, volNow>>]

\* simulateInjection reaches the call of getLiquidHeight for pair (i, j);
\* getLiquidHeight sets iterations = 10000
CallGetLiquidHeight ==
  /\ pc = "call"
  /\ pc' = "while"
  /\ iterations' = IterStart
  /\ thetas' = <<>> /\ areas' = <<>> /\ area' = <<>> /\ kept' = <<>>
  /\ builds' = 0 /\ tableN' = 0 /\ matched' = FALSE
  /\ UNCHANGED <<inputs, kinetics, H, tempTs, err, i, j, log>>

\* the while condition
loopContinues(n) == n < IterCap

\* a pass of the while loop in which getLiquidArea raises: tdata[1] of a
\* one-point grid is an IndexError, nothing catches it, the program ends
AttemptRaises ==
  /\ pc = "while" /\ loopContinues(iterations)
  /\ Len(tdataNow) < 2
  /\ pc' = "crashed" /\ err' = "IndexError"
  /\ UNCHANGED <<inputs, kinetics, H, tempTs, i, j, iterations, thetas, areas,
                 area, kept, builds, tableN, matched, log>>

\* the rounding of the areas and the for/else over them
matchAreas(samples, st, sa) ==
  matchRounded(samples, List([k \in 1..Len(samples.values) |->
                                pyRound(samples.values[k], AccuracyDP)]), st, sa)

\* what one pass of the while loop computes
attempt ==
  matchAreas(areaSamples(tdataNow, flowNow, VL[j]),
             simulatedThetasOf(iterations), simulatedAreasOf(iterations))

passResult(a) ==
  /\ iterations' = IF a.ok THEN IterCap ELSE nextIterations(iterations)
  /\ area' = a.raw
  /\ areas' = a.rounded
  /\ kept' = a.idx
  /\ thetas' = a.thetas
  /\ matched' = a.ok

\* a pass of the while loop that builds a table: either some rounded area is
\* not in it (break, iterations += 5000) or all are (the else branch)
Attempt ==
  /\ pc = "while" /\ loopContinues(iterations)
  /\ Len(tdataNow) >= 2
  /\ passResult(attempt)
  /\ builds' = builds + 1
  /\ tableN' = iterations
  /\ UNCHANGED <<inputs, kinetics, H, tempTs, pc, err, i, j, log>>

\* the loop is left: heights, clamp, truncated grid, return; the driver
\* appends and moves to the next pair (tempTs starts empty for each flow)
ReturnHeights ==
  /\ pc = "while" /\ ~loopContinues(iterations)
  /\ LET liquidHeight == List([k \in 1..Len(thetas) |->
                                 clampHeight(calculateHeight(D, thetas[k]))])
         Tms == T[<<flowNow, volNow>>]
         td == truncate(linspace(Tms, gridPoints(Tms)), Len(liquidHeight))
         lastVol == j = Len(VF)
     IN  /\ H' = Append(H, liquidHeight)
         /\ tempTs' = Append(IF j = 1 THEN <<>> ELSE tempTs, td)
         /\ log' = Append(log, [flow |-> flowNow, vol |-> volNow,
                                returned |-> "heights",
                                liquidHeight |-> liquidHeight, tdata |-> td,
                                grid |-> tdataNow,
                                thetas |-> thetas, areas |-> areas, kept |-> kept,
                                N |-> tableN, builds |-> builds,
                                matched |-> matched])
         /\ j' = IF lastVol THEN 1 ELSE j + 1
         /\ i' = IF lastVol THEN i + 1 ELSE i
         /\ pc' = IF lastVol /\ i = Len(Q) THEN "done" ELSE "call"
  /\ UNCHANGED <<inputs, kinetics, err, iterations, thetas, areas, area, kept,
                 builds, tableN, matched>>

Next ==
  \/ CallGetLiquidHeight
  \/ AttemptRaises
  \/ Attempt
  \/ ReturnHeights

Spec == Init /\ [][Next]_vars

----------------------------------------------------------------------------
(* getLiquidVolume applied on its own to a uniform grid, any half-time *)

KFHTChoices == {1, 2, 3}
KDtChoices == {1000, 2000, 3000, 5000}
KC0Choices == {600, 1000}

KInit ==
  /\ V = 3 /\ D = syringeDiameters[3]
  /\ FHT \in KFHTChoices
  /\ LG = 3 /\ VF = <<>> /\ VL = <<>> /\ Q = <<>>
  /\ AccuracyDP = 0 /\ Tfrequency = 1 /\ L = 0
  /\ T = <<>> /\ tdata = <<>>
  /\ H = <<>> /\ tempTs = <<>>
  /\ pc = "kinetics" /\ err = "none"
  /\ i = 1 /\ j = 1
  /\ iterations = 0 /\ thetas = <<>> /\ areas = <<>>
  /\ area = <<>> /\ kept = <<>>
  /\ builds = 0 /\ tableN = 0 /\ matched = FALSE
  /\ log = <<>>
  /\ kGrid \in {List([k \in 1..n |-> (k - 1) * dt]) :
                  n \in 2..(MaxKSteps + 1), dt \in KDtChoices}
  /\ kC0 \in KC0Choices
  /\ kVolumes = <<>>
  /\ kpc = "ready"

ApplyGetLiquidVolume ==
  /\ kpc = "ready"
  /\ kVolumes' = getLiquidVolume(kGrid, kC0)
  /\ kpc' = "returned"
  /\ UNCHANGED <<inputs, H, tempTs, pc, err, i, j, iterations, thetas, areas,
                 area, kept, builds, tableN, matched, log, kGrid, kC0>>

KNext == ApplyGetLiquidVolume

SpecKinetics == KInit /\ [][KNext]_vars

----------------------------------------------------------------------------
(* Claims *)

Pairs == Len(Q) * Len(VF)
MaxBuilds == (IterCap - IterStart) \div IterStep

\* C1: a call of getLiquidHeight that left its loop at the cap without a full
\* match returns an explicit "did not converge" outcome, never a list of
\* heights.  The code returns the heights of the angles matched before the
\* first missing area.
C1_NonConvergenceExplicit ==
  \A p \in 1..Len(log) : ~log[p].matched => log[p].returned = "notConverged"

\* C2: when the driver has ended, every pair has a result or an error: a
\* failing pair does not keep the later pairs from being solved.
C2_FailureIsolation ==
  pc \in {"done", "crashed"} =>
    Len(log) + (IF err = "none" THEN 0 ELSE 1) = Pairs

\* C3: inside getLiquidHeight the resolution is 10000 + 5000*k, never above
\* 500000; it is 10000 before the first table, the last table's resolution
\* plus 5000 after a failed pass and 500000 after a successful one; at most
\* 98 tables are built and none with resolution 500000.
C3_BoundedRetry ==
  pc = "while" =>
    /\ iterations \in {IterStart + k * IterStep : k \in 0..MaxBuilds}
    /\ iterations <= IterCap
    /\ builds <= MaxBuilds
    /\ tableN < IterCap
    /\ builds = 0 => iterations = IterStart
    /\ builds >= 1 =>
         /\ tableN = IterStart + (builds - 1) * IterStep
         /\ iterations = IF matched THEN IterCap ELSE tableN + IterStep

C3_Witness ==
  pc = "while" /\ builds = MaxBuilds /\ ~matched /\ iterations = IterCap

\* C4: every height getLiquidHeight returns lies in [0, D/2], whether the loop
\* ended with a full match or at the cap.
C4_HeightClamp ==
  \A p \in 1..Len(log) : \A k \in 1..Len(log[p].liquidHeight) :
    0 <= log[p].liquidHeight[k] /\ log[p].liquidHeight[k] <= D \div 2

C4_Witness ==
  \E p \in 1..Len(log) : \E k \in 1..Len(log[p].thetas) :
    /\ 2 * log[p].thetas[k].num > log[p].thetas[k].den
    /\ calculateHeight(D, log[p].thetas[k]) > D \div 2
    /\ log[p].liquidHeight[k] = D \div 2

C5_Monotone(vs) == \A k \in 1..(Len(vs) - 1) : vs[k] <= vs[k + 1]
C5_Bounded(vs) == \A k \in 1..Len(vs) : vs[k] <= kC0

\* C5 as stated: for every step size the drained-volume series is
\* non-decreasing and bounded by C0.
C5_AllStepSizes ==
  kpc = "returned" => C5_Monotone(kVolumes) /\ C5_Bounded(kVolumes)

\* C5 amended: for step sizes 0 < dt <= 2*FHT the drained-volume series is
\* non-decreasing and bounded by C0.
C5_StepWithinTwoHalfTimes ==
  (kpc = "returned" /\ kGrid[2] - kGrid[1] <= 2 * FHT * 1000) =>
    C5_Monotone(kVolumes) /\ C5_Bounded(kVolumes)

C5_Witness ==
  /\ kpc = "returned" /\ kGrid[2] - kGrid[1] <= 2 * FHT * 1000
  /\ Len(kVolumes) >= 3
  /\ 0 < kVolumes[1] /\ kVolumes[1] < kVolumes[3]

\* C6: the drained-volume series has one value per grid point and its first
\* value is 0.  The code appends after the update, so its first value is the
\* volume drained after one step.
C6_StartsAtZero ==
  kpc = "returned" => Len(kVolumes) = Len(kGrid) /\ kVolumes[1] = 0

C7_Agrees(volumes, lengths) ==
  /\ \A k \in 1..Len(tdataNow) :
       (\E m \in 1..Len(kept) : kept[m] = k) <=>
         /\ lengths[k] > 0
         /\ 0 < volumes[k] * 1000
         /\ volumes[k] * 1000 < getSyringeCrossArea * lengths[k]
  /\ \A m \in 1..(Len(kept) - 1) : kept[m] < kept[m + 1]
  /\ Len(area) = Len(kept)
  /\ \A m \in 1..Len(kept) : area[m] = (volumes[kept[m]] * 1000) \div lengths[kept[m]]

\* C7: sample k is kept iff its length is positive and 0 < volume*1000 <
\* crossSectionArea*length; samples of length <= 0 are dropped and raise
\* nothing; the kept samples stay in grid order.
C7_FilterKeepsValidSamples ==
  /\ err \in {"none", "IndexError"}
  /\ (pc = "while" /\ builds >= 1) =>
       C7_Agrees(getLiquidVolume(tdataNow, VL[j]), getLiquidLength(tdataNow, flowNow))

C7_HasZero(lengths) == \E k \in 1..Len(lengths) : lengths[k] = 0

C7_Witness ==
  /\ pc = "while" /\ builds >= 1 /\ err = "none"
  /\ C7_HasZero(getLiquidLength(tdataNow, flowNow))

C8_FirstMatches(st, sa) ==
  /\ Len(thetas) = Len(areas)
  /\ \A k \in 1..Len(areas) :
       \E m \in 1..Len(sa) :
         /\ sa[m] = areas[k]
         /\ \A n \in 1..(m - 1) : sa[n] # areas[k]
         /\ thetas[k] = st[m]

\* C8: when a pass matched every area, there is one angle per area, in order,
\* each the angle of the first table entry whose rounded model area is the
\* rounded area, all taken from the table of that pass.
C8_FirstMatchPerArea ==
  (pc = "while" /\ matched) =>
    C8_FirstMatches(simulatedThetasOf(tableN), simulatedAreasOf(tableN))

C8_Witness ==
  /\ pc = "while" /\ matched /\ builds >= 2
  /\ Len(thetas) >= 2
  /\ \E k \in 1..Len(thetas) : thetas[k].num > 0

\* C9: every pair's time grid has at least two points and no solve fails on
\* its grid.
C9_GridHasTwoPoints ==
  /\ \A p \in DOMAIN tdata : Len(tdata[p]) >= 2
  /\ pc # "crashed"

C10_Prefix(idx) == \A m \in 1..Len(idx) : idx[m] = m

\* C10: the kept samples are the first k grid samples; the returned times and
\* heights have the same length k, at most the grid's, and time m is the time
\* of the grid sample height m was computed from.
C10_PrefixAndAlignment ==
  /\ (pc = "while" /\ builds >= 1) => C10_Prefix(kept)
  /\ \A p \in 1..Len(log) :
       /\ C10_Prefix(log[p].kept)
       /\ Len(log[p].tdata) = Len(log[p].liquidHeight)
       /\ Len(log[p].liquidHeight) <= Len(log[p].grid)
       /\ \A m \in 1..Len(log[p].liquidHeight) :
            log[p].tdata[m] = log[p].grid[log[p].kept[m]]

C10_Witness ==
  \E p \in 1..Len(log) :
    /\ 1 < Len(log[p].liquidHeight)
    /\ Len(log[p].liquidHeight) < Len(log[p].grid)

====
